---- MODULE Spec2Model ----
(***************************************************************************)
(* A call center with limited agents: one scenario run of 121444498_CS.py. *)
(* The script drives a simpy Environment; one step of the model is one     *)
(* env.step(): the earliest event is popped, the clock moves to its time   *)
(* and the generator waiting on it (setup or one customer) runs up to its  *)
(* next yield.  Virtual time and the exponential samples are integers.     *)
(***************************************************************************)
EXTENDS Integers, Sequences, FiniteSets, TLC

\* ---------------------------------------------------------------- bounds
MaxHorizon == 3      \* largest SIM_TIME tried
MaxGap     == 2      \* largest interarrival sample
MaxService == 2      \* largest service-time sample
MaxBurst   == 2      \* only the first MaxBurst interarrival samples may be 0
MaxAgents  == 2      \* largest num_agents tried

MaxCalls == MaxHorizon + MaxBurst
Calls    == 1..MaxCalls

VARIABLES
  SIM_TIME,            \* line 9, the horizon handed to env.run
  INTER_ARRIVAL_MEAN,  \* line 10
  num_agents,          \* scenario setting, line 52
  service_mean,        \* scenario setting, line 52
  status,              \* where the scenario loop body is: created/running/done/error/reported
  now,                 \* env.now
  events,              \* env._queue in pop order: records [time, prio, kind, call]
  built,               \* TRUE once setup has constructed simpy.Resource (line 40)
  users,               \* agents.users: calls holding an agent, in grant order
  put_queue,           \* agents.queue: calls waiting for an agent, in request order
  i,                   \* setup's call counter
  pc,                  \* each customer generator's position
  arrival_time,        \* customer's local arrival_time
  usage_since,         \* request.usage_since: the time the request was granted
  wait_times, queue_lengths, service_times,   \* the observation lists
  wait_calls,          \* history: the call that appended each wait_times entry
  grants,              \* history: calls in the order the pool granted them
  queued,              \* history: calls left on the put queue by their own request
  peak_queue,          \* history: the largest len(agents.queue) a step has left behind
  dispatched,          \* history: the event env.step popped last
  results              \* the scenario's record in results (lines 61-70)

vars == <<SIM_TIME, INTER_ARRIVAL_MEAN, num_agents, service_mean, status, now,
          events, built, users, put_queue, i, pc, arrival_time, usage_since,
          wait_times, queue_lengths, service_times, wait_calls, grants,
          queued, peak_queue, dispatched, results>>

params == <<SIM_TIME, INTER_ARRIVAL_MEAN, num_agents, service_mean>>
obs    == <<wait_times, queue_lengths, service_times, wait_calls>>
hist   == <<grants, queued, peak_queue>>

NoEvent == [time |-> 0, prio |-> 0, kind |-> "none", call |-> 0]
NoResults == [reported |-> FALSE]

\* ------------------------------------------------------------ event queue
\* simpy orders env._queue by (time, priority, event id); ids grow with every
\* schedule call, so a new event goes behind every event whose (time, priority)
\* is not larger.  URGENT is priority 0, NORMAL is priority 1.
Event(t, p, k, c) == [time |-> t, prio |-> p, kind |-> k, call |-> c]

\* variant: a new event goes ahead of the events of its own time and priority
NotAfterStrict(a, b) == a.time < b.time \/ (a.time = b.time /\ a.prio < b.prio)

NotAfter(a, b) == a.time < b.time \/ (a.time = b.time /\ a.prio <= b.prio)

\* variant: the queue is kept in scheduling order, whatever the event times
ScheduleAppend(q, ev) == Append(q, ev)

Schedule(q, ev) ==
  LET k == Cardinality({j \in 1..Len(q) : NotAfter(q[j], ev)})
  IN  SubSeq(q, 1, k) \o <<ev>> \o SubSeq(q, k + 1, Len(q))

RECURSIVE ScheduleAll(_, _)
ScheduleAll(q, evs) ==
  IF evs = <<>> THEN q ELSE ScheduleAll(Schedule(q, Head(evs)), Tail(evs))

\* ------------------------------------------------------ random.expovariate
\* random.expovariate(1 / mean): the samples it can return.  A positive mean
\* gives samples >= 0, a negative mean samples <= 0 (-log(1-u)/lambd with
\* lambd < 0); mean = 0 raises ZeroDivisionError before any sample is drawn.
Expovariate(mean, max, zero) ==
  IF mean > 0 THEN (IF zero THEN 0 ELSE 1)..max
  ELSE IF mean < 0 THEN (0 - max)..(IF zero THEN 0 ELSE 0 - 1)
  ELSE {}

GapSamples     == Expovariate(INTER_ARRIVAL_MEAN, MaxGap, i < MaxBurst)
GapSamplesNext == Expovariate(INTER_ARRIVAL_MEAN, MaxGap, i + 1 < MaxBurst)
ServiceSamples == Expovariate(service_mean, MaxService, TRUE)

\* ------------------------------------------------------------------- Init
Init ==
  /\ SIM_TIME \in 0..MaxHorizon
  /\ INTER_ARRIVAL_MEAN \in {0 - 1, 0, 1}
  /\ num_agents \in 0..MaxAgents
  /\ service_mean \in {0 - 1, 0, 1}
  /\ status = "created"
  /\ now = 0
  /\ events = <<Event(0, 0, "init_setup", 0)>>     \* line 58: env.process(setup(...))
  /\ built = FALSE
  /\ users = <<>>
  /\ put_queue = <<>>
  /\ i = 0
  /\ pc = [c \in Calls |-> "unborn"]
  /\ arrival_time = [c \in Calls |-> 0]
  /\ usage_since = [c \in Calls |-> 0]
  /\ wait_times = <<>>
  /\ queue_lengths = <<>>
  /\ service_times = <<>>
  /\ wait_calls = <<>>
  /\ grants = <<>>
  /\ queued = {}
  /\ peak_queue = 0
  /\ dispatched = NoEvent
  /\ results = NoResults


\* ------------------------------------------------------------ agent pool
\* simpy.Resource.  request() appends the request to the put queue and then
\* calls _trigger_put, which offers an agent to the HEAD of the put queue only
\* (_do_put returns None, so the scan stops after one request); the head is
\* granted when fewer than capacity requests hold an agent.  Processing a Release
\* event calls _trigger_put again.  The result also names the call granted.
\* variant: the newest request is served first
TriggerPutNewest(us, pq, capacity) ==
  IF pq # <<>> /\ Len(us) < capacity
  THEN [users |-> Append(us, pq[Len(pq)]), put_queue |-> SubSeq(pq, 1, Len(pq) - 1),
        granted |-> <<pq[Len(pq)]>>]
  ELSE [users |-> us, put_queue |-> pq, granted |-> <<>>]

\* variant: the capacity test is off by one
TriggerPutOverbook(us, pq, capacity) ==
  IF pq # <<>> /\ Len(us) <= capacity
  THEN [users |-> Append(us, Head(pq)), put_queue |-> Tail(pq), granted |-> <<Head(pq)>>]
  ELSE [users |-> us, put_queue |-> pq, granted |-> <<>>]

TriggerPut(us, pq, capacity) ==
  IF pq # <<>> /\ Len(us) < capacity
  THEN [users |-> Append(us, Head(pq)), put_queue |-> Tail(pq), granted |-> <<Head(pq)>>]
  ELSE [users |-> us, put_queue |-> pq, granted |-> <<>>]

\* variant: a request only joins the queue; agents are handed out on release
RequestQueuesOnly(us, pq, c, capacity) ==
  [users |-> us, put_queue |-> Append(pq, c), granted |-> <<>>]

\* variant: every request is granted at once, whatever the capacity
RequestUnlimited(us, pq, c, capacity) ==
  [users |-> Append(us, c), put_queue |-> pq, granted |-> <<c>>]

\* agents.request() of call c (line 28)
Request(us, pq, c, capacity) == TriggerPut(us, Append(pq, c), capacity)

\* variant: a release does not hand the agent to a waiting request
OnReleaseIdle(us, pq, capacity) == [users |-> us, put_queue |-> pq, granted |-> <<>>]

\* the Release event's callback (_trigger_put) when it is processed
OnRelease(us, pq, capacity) == TriggerPut(us, pq, capacity)

\* variant: the agent is never given back
ReleaseKeeps(us, c) == us

\* leaving the with block (lines 28-37): _do_get removes the request from users
Release(us, c) == SelectSeq(us, LAMBDA x : x # c)

\* variant: the queue is sampled after the request has joined it
QueueLengthAfter(pq) == Len(pq) + 1

\* variant: the sample leaves out the request at the head of the queue
QueueLengthBehindHead(pq) == IF Len(pq) > 0 THEN Len(pq) - 1 ELSE 0

\* len(agents.queue), line 26
QueueLength(pq) == Len(pq)

\* variant: the operands are swapped
WaitSwapped(t, arrived) == arrived - t

\* wait = env.now - arrival_time, line 30
Wait(t, arrived) == t - arrived

\* the Request events of the calls just granted, scheduled by event.succeed()
GrantEvents(granted, t) == [k \in 1..Len(granted) |-> Event(t, 1, "request", granted[k])]

Granted(usage, granted, t) ==
  [c \in Calls |-> IF \E k \in 1..Len(granted) : granted[k] = c THEN t ELSE usage[c]]

\* ------------------------------------------------------------------ setup
\* line 43: yield env.timeout(random.expovariate(1 / INTER_ARRIVAL_MEAN)).
\* The queues that can result: 1 / 0 raises ZeroDivisionError and a negative
\* delay raises ValueError in env.timeout; either way the setup process fails
\* and its failed Process event is scheduled for the current time.
SetupWait(q, t, samples) ==
  IF INTER_ARRIVAL_MEAN = 0
  THEN {Schedule(q, Event(t, 1, "proc_fail", 0))}
  ELSE {IF g < 0 THEN Schedule(q, Event(t, 1, "proc_fail", 0))
                 ELSE Schedule(q, Event(t + g, 1, "arrival", 0)) : g \in samples}

\* ------------------------------------------------------------ env.run(until)
\* line 59, before the first step: a horizon not after env.now is rejected with
\* ValueError; otherwise the stop event is scheduled URGENT at the horizon.
HorizonAccepted(until, t) == until > t

\* variant: the stop event is scheduled one time unit late
UntilEventLate(until) == Event(until + 1, 0, "until", 0)

\* variant: the stop event yields to every event scheduled for the horizon
UntilEventLast(until) == Event(until, 2, "until", 0)

UntilEvent(until) == Event(until, 0, "until", 0)

Run ==
  /\ status = "created"
  /\ IF HorizonAccepted(SIM_TIME, now)
     THEN /\ status' = "running"
          /\ events' = Schedule(events, UntilEvent(SIM_TIME))
     ELSE /\ status' = "error"
          /\ events' = events
  /\ UNCHANGED <<params, now, built, users, put_queue, i, pc, arrival_time,
                 usage_since, obs, hist, dispatched, results>>

\* env.step(): pop the earliest event and move the clock to its time
Pops(kind) ==
  /\ status = "running"
  /\ events # <<>>
  /\ Head(events).kind = kind
  /\ now' = Head(events).time
  /\ dispatched' = Head(events)

\* setup starts (lines 40-43): build the pool, then wait for the first arrival.
\* simpy.Resource raises ValueError for capacity <= 0.
StepInitSetup ==
  /\ Pops("init_setup")
  /\ IF num_agents <= 0
     THEN /\ built' = FALSE
          /\ events' = Schedule(Tail(events), Event(now', 1, "proc_fail", 0))
     ELSE /\ built' = TRUE
          /\ events' \in SetupWait(Tail(events), now', GapSamples)
  /\ UNCHANGED <<params, status, users, put_queue, i, pc, arrival_time,
                 usage_since, obs, hist, results>>

\* setup's timeout fires (lines 44-45, then 43 again): spawn the next customer
\* (its Initialize event is URGENT, at the current time) and wait for the next.
StepArrival ==
  /\ Pops("arrival")
  /\ i' = i + 1
  /\ pc' = [pc EXCEPT ![i + 1] = "spawned"]
  /\ events' \in SetupWait(Schedule(Tail(events), Event(now', 0, "init_customer", i + 1)),
                           now', GapSamplesNext)
  /\ UNCHANGED <<params, status, built, users, put_queue, arrival_time,
                 usage_since, obs, hist, results>>

\* customer starts (lines 23-29): note the arrival time, sample the queue
\* length, request an agent and wait for the Request event.
StepInitCustomer ==
  /\ Pops("init_customer")
  /\ LET c == Head(events).call
         r == Request(users, put_queue, c, num_agents)
     IN  /\ arrival_time' = [arrival_time EXCEPT ![c] = now']
         /\ queue_lengths' = Append(queue_lengths, QueueLength(put_queue))
         /\ users' = r.users
         /\ put_queue' = r.put_queue
         /\ grants' = grants \o r.granted
         /\ queued' = IF r.granted = <<c>> THEN queued ELSE queued \cup {c}
         /\ peak_queue' = IF Len(r.put_queue) > peak_queue THEN Len(r.put_queue) ELSE peak_queue
         /\ usage_since' = Granted(usage_since, r.granted, now')
         /\ events' = ScheduleAll(Tail(events), GrantEvents(r.granted, now'))
         /\ pc' = [pc EXCEPT ![c] = "requesting"]
  /\ UNCHANGED <<params, status, built, i, wait_times, service_times,
                 wait_calls, results>>

\* the Request event is processed (lines 30-37): the customer records its wait,
\* draws its service time and holds the agent.  1 / service_mean raises for
\* service_mean = 0 before anything is appended to service_times; a negative
\* sample is appended and then env.timeout raises.  An exception leaves the with
\* block, which releases the agent, and fails the customer process.
StepRequest ==
  /\ Pops("request")
  /\ LET c == Head(events).call
         crash == ScheduleAll(Tail(events),
                    <<Event(now', 1, "release", c), Event(now', 1, "proc_fail", c)>>)
     IN  /\ wait_times' = Append(wait_times, Wait(now', arrival_time[c]))
         /\ wait_calls' = Append(wait_calls, c)
         /\ IF service_mean = 0
            THEN /\ service_times' = service_times
                 /\ users' = Release(users, c)
                 /\ events' = crash
                 /\ pc' = [pc EXCEPT ![c] = "failed"]
            ELSE \E s \in ServiceSamples :
                 /\ service_times' = Append(service_times, s)
                 /\ IF s < 0
                    THEN /\ users' = Release(users, c)
                         /\ events' = crash
                         /\ pc' = [pc EXCEPT ![c] = "failed"]
                    ELSE /\ users' = users
                         /\ events' = Schedule(Tail(events), Event(now' + s, 1, "service", c))
                         /\ pc' = [pc EXCEPT ![c] = "serving"]
  /\ UNCHANGED <<params, status, built, put_queue, i, arrival_time, usage_since,
                 queue_lengths, hist, results>>

\* the service timeout fires (line 37, end of the with block): the customer
\* releases its agent and its generator ends.
StepService ==
  /\ Pops("service")
  /\ LET c == Head(events).call
     IN  /\ users' = Release(users, c)
         /\ events' = ScheduleAll(Tail(events),
                        <<Event(now', 1, "release", c), Event(now', 1, "proc_ok", c)>>)
         /\ pc' = [pc EXCEPT ![c] = "done"]
  /\ UNCHANGED <<params, status, built, put_queue, i, arrival_time, usage_since,
                 obs, hist, results>>

\* the Release event is processed: its callback _trigger_put offers the freed
\* agent to the head of the put queue.
StepRelease ==
  /\ Pops("release")
  /\ LET r == OnRelease(users, put_queue, num_agents)
     IN  /\ users' = r.users
         /\ put_queue' = r.put_queue
         /\ grants' = grants \o r.granted
         /\ queued' = queued
         /\ peak_queue' = peak_queue
         /\ usage_since' = Granted(usage_since, r.granted, now')
         /\ events' = ScheduleAll(Tail(events), GrantEvents(r.granted, now'))
  /\ UNCHANGED <<params, status, built, i, pc, arrival_time, obs, results>>

\* the Process event of a customer that ended normally: nobody waits on it
StepProcOk ==
  /\ Pops("proc_ok")
  /\ events' = Tail(events)
  /\ UNCHANGED <<params, status, built, users, put_queue, i, pc, arrival_time,
                 usage_since, obs, hist, results>>

\* the Process event of a failed process: env.step re-raises its exception,
\* which ends env.run and the script.
StepProcFail ==
  /\ Pops("proc_fail")
  /\ events' = Tail(events)
  /\ status' = "error"
  /\ UNCHANGED <<params, built, users, put_queue, i, pc, arrival_time,
                 usage_since, obs, hist, results>>

\* the stop event at the horizon: StopSimulation ends env.run
StepUntil ==
  /\ Pops("until")
  /\ events' = Tail(events)
  /\ status' = "done"
  /\ UNCHANGED <<params, built, users, put_queue, i, pc, arrival_time,
                 usage_since, obs, hist, results>>

\* ---------------------------------------------------------------- metrics
RECURSIVE Sum(_)
Sum(s) == IF s = <<>> THEN 0 ELSE Head(s) + Sum(Tail(s))

RECURSIVE Max(_)
Max(s) == IF Len(s) = 1 THEN Head(s)
          ELSE IF Head(s) >= Max(Tail(s)) THEN Head(s) ELSE Max(Tail(s))

\* a quotient n/d kept exact, as the pair <<n, d>>; the literal 0 is <<0, 1>>
Zero == <<0, 1>>

\* line 61
avg_wait == IF wait_times # <<>> THEN <<Sum(wait_times), Len(wait_times)>> ELSE Zero
\* line 62
max_queue == IF queue_lengths # <<>> THEN Max(queue_lengths) ELSE 0
\* line 63
agent_utilization ==
  IF service_times # <<>> THEN <<100 * Sum(service_times), num_agents * SIM_TIME>> ELSE Zero

\* lines 61-70, after env.run has returned
Report ==
  /\ status = "done"
  /\ status' = "reported"
  /\ results' = [reported |-> TRUE, avg_wait |-> avg_wait, max_queue |-> max_queue,
                 agent_utilization |-> agent_utilization, wait_times |-> wait_times]
  /\ UNCHANGED <<params, now, events, built, users, put_queue, i, pc, arrival_time,
                 usage_since, obs, hist, dispatched>>

Next ==
  \/ Run
  \/ StepInitSetup
  \/ StepArrival
  \/ StepInitCustomer
  \/ StepRequest
  \/ StepService
  \/ StepRelease
  \/ StepProcOk
  \/ StepProcFail
  \/ StepUntil
  \/ Report

Spec == Init /\ [][Next]_vars


\* ================================================================ claims
Range(s) == {s[k] : k \in 1..Len(s)}

\* position of call c in the grant order, 0 when it has not been granted
GrantPos(c) == IF c \in Range(grants) THEN CHOOSE k \in 1..Len(grants) : grants[k] = c ELSE 0

busy_count == Len(users)

InSystem == {c \in Calls : pc[c] \in {"requesting", "serving"}}

Ended == status \in {"done", "error", "reported"}

\* C1: FIFO grant order.  Calls are numbered in arrival order.  For two calls
\* r1 < r2 that both had to join the waiting list, r2 has been granted only if
\* r1 has been granted, earlier in the grant order and at no later a time; the
\* waiting list itself is in arrival order.
C1_FifoGrantOrder ==
  /\ \A r1 \in queued : \A r2 \in queued :
       (r1 < r2 /\ GrantPos(r2) # 0) =>
          /\ GrantPos(r1) # 0
          /\ GrantPos(r1) < GrantPos(r2)
          /\ usage_since[r1] <= usage_since[r2]
  /\ \A j \in 1..Len(put_queue) : \A k \in 1..Len(put_queue) :
       j < k => put_queue[j] < put_queue[k]

\* two calls waited at the same time behind a busy agent and both were granted
C1_Witness ==
  \E r1 \in queued : \E r2 \in queued :
     /\ r1 < r2
     /\ GrantPos(r1) # 0 /\ GrantPos(r2) # 0
     /\ arrival_time[r2] < usage_since[r1]

\* C2: capacity bound.  The number of requests holding an agent is between 0
\* and num_agents, in every state of the run.
C2_CapacityBound == busy_count >= 0 /\ busy_count <= num_agents

\* both agents busy while a third call waits
C2_Witness == num_agents = 2 /\ busy_count = 2 /\ put_queue # <<>>

\* C3: conservation.  Requests holding an agent plus requests on the waiting
\* list are exactly the requests that have arrived and not departed, each
\* counted once.
C3_Conservation ==
  /\ busy_count + Len(put_queue) = Cardinality(InSystem)
  /\ Range(users) \cup Range(put_queue) = InSystem

\* one call in service, one waiting, one departed
C3_Witness ==
  /\ busy_count >= 1
  /\ put_queue # <<>>
  /\ \E c \in Calls : pc[c] = "done"

\* C4: non-negative waits.  Every entry of wait_times is >= 0 and is the time
\* its request was granted minus the time it arrived.
C4_NonNegativeWaits ==
  \A k \in 1..Len(wait_times) :
     /\ wait_times[k] >= 0
     /\ wait_times[k] = usage_since[wait_calls[k]] - arrival_time[wait_calls[k]]

\* a call that really waited has recorded its wait
C4_Witness == \E k \in 1..Len(wait_times) : wait_times[k] >= 1

\* C5: horizon respect.  No event scheduled after the horizon is dispatched, no
\* arrival or grant happens after it, and the clock never passes it.
C5_HorizonRespect ==
  /\ dispatched.time <= SIM_TIME
  /\ now <= SIM_TIME
  /\ \A c \in Calls : arrival_time[c] <= SIM_TIME /\ usage_since[c] <= SIM_TIME

\* the run has ended at the horizon leaving an event scheduled beyond it
C5_Witness ==
  /\ status = "done"
  /\ now = SIM_TIME
  /\ i >= 1
  /\ \E k \in 1..Len(events) : events[k].time > SIM_TIME


ValidConfig == num_agents >= 1 /\ service_mean > 0 /\ INTER_ARRIVAL_MEAN > 0

Waiting(c) == c \in Range(put_queue)

ReleasePending == \E k \in 1..Len(events) : events[k].kind = "release"

\* C7: degenerate scenario.  With a valid configuration, a run whose horizon is
\* 0, or in which the horizon comes before the first arrival, ends without
\* raising and reports average wait 0, maximum queue length 0, utilization 0
\* and no wait times.
C7_DegenerateScenario ==
  (ValidConfig /\ Ended /\ (SIM_TIME = 0 \/ i = 0)) =>
     /\ status # "error"
     /\ wait_times = <<>>
     /\ status = "reported" =>
          /\ results.avg_wait = Zero
          /\ results.max_queue = 0
          /\ results.agent_utilization = Zero
          /\ results.wait_times = <<>>

\* C8: configuration errors prevent the run from starting.  With a non-positive
\* num_agents, service_mean or INTER_ARRIVAL_MEAN the clock never advances, no
\* customer starts and nothing is appended to the observation lists.
C8_ConfigErrorsBeforeRun ==
  ~ValidConfig =>
     /\ now = 0
     /\ \A c \in Calls : pc[c] \in {"unborn", "spawned"}
     /\ wait_times = <<>> /\ queue_lengths = <<>> /\ service_times = <<>>

\* C9: queue-depth sampling.  A step in which a customer starts appends exactly
\* one value to queue_lengths, the length of the waiting list before that
\* customer's own request, and the customer is not on that list; no other step
\* changes queue_lengths.
C9_QueueDepthSampling ==
  [][ /\ \A c \in Calls :
           (pc[c] = "spawned" /\ pc'[c] # "spawned") =>
              /\ queue_lengths' = Append(queue_lengths, Len(put_queue))
              /\ ~Waiting(c)
      /\ (\A c \in Calls : pc[c] = "spawned" => pc'[c] = "spawned") =>
              queue_lengths' = queue_lengths
    ]_vars

\* a customer has sampled a non-empty waiting list and then joined it
C9_Witness ==
  /\ queue_lengths # <<>>
  /\ queue_lengths[Len(queue_lengths)] >= 1
  /\ Len(put_queue) = queue_lengths[Len(queue_lengths)] + 1

\* C10: no starvation.  With a valid configuration, every request placed on
\* the waiting list is granted an agent: once the run is over, none is left
\* waiting.
C10_NoStarvation ==
  (ValidConfig /\ status \in {"done", "reported"}) => put_queue = <<>>

\* C10 as amended: when the run has ended, every request that was placed on the
\* waiting list has been granted, except requests still waiting behind a fully
\* busy pool, or behind a release whose hand-off the run did not get to.
C10_GrantedOrCutOff ==
  Ended =>
    \A c \in queued :
       \/ GrantPos(c) # 0
       \/ (Waiting(c) /\ (busy_count = num_agents \/ ReleasePending))

\* a request that waited has been granted, and another waits at the end of the run
C10_Witness ==
  /\ status = "done"
  /\ put_queue # <<>>
  /\ \E c \in queued : GrantPos(c) # 0

\* ------------------------------------------------------- claims C11 to C20
\* every recorded service fits inside the horizon
ServiceWithinHorizon ==
  \A k \in 1..Len(service_times) :
     /\ k <= Len(wait_calls)
     /\ usage_since[wait_calls[k]] + service_times[k] <= SIM_TIME

\* C11: utilization bound.  In a run where every recorded request has
\* grant time + service time <= horizon, sum(service_times) is at most
\* num_agents * SIM_TIME, so the utilization percentage is at most 100.
C11_UtilizationBound ==
  ServiceWithinHorizon =>
     /\ Sum(service_times) <= num_agents * SIM_TIME
     /\ agent_utilization[1] <= 100 * agent_utilization[2]

\* a reported run whose services all fit in the horizon and fill every agent
C11_Witness ==
  /\ status = "reported"
  /\ ServiceWithinHorizon
  /\ num_agents = 2
  /\ Sum(service_times) = num_agents * SIM_TIME

Returned == status \in {"done", "reported"}

\* C12: events at the horizon.  With a valid configuration, when env.run has
\* returned every event scheduled at or before the horizon has been dispatched:
\* what is left pending is scheduled strictly after the horizon.
C12_EventsAtHorizon ==
  (ValidConfig /\ Returned) => \A k \in 1..Len(events) : events[k].time > SIM_TIME

\* C12 as amended: the run dispatches the pending events scheduled strictly
\* before the horizon and stops at the horizon itself; an arrival, grant or
\* departure scheduled for exactly the horizon is left pending.
C12_EventsBeforeHorizon ==
  /\ dispatched.kind \notin {"none", "until"} => dispatched.time < SIM_TIME
  /\ Returned => /\ now = SIM_TIME
                 /\ dispatched.kind = "until"
                 /\ \A k \in 1..Len(events) : events[k].time >= SIM_TIME

\* the run has returned leaving an arrival and a departure scheduled for
\* exactly the horizon
C12_Witness ==
  /\ Returned
  /\ \E k \in 1..Len(events) : events[k].time = SIM_TIME /\ events[k].kind = "arrival"
  /\ \E k \in 1..Len(events) : events[k].time = SIM_TIME /\ events[k].kind = "service"

\* position of event e in queue q
PosIn(q, e) == CHOOSE k \in 1..Len(q) : q[k] = e

\* the events that were pending before a step and still are after it: a step of
\* the running environment pops the head, any other step pops nothing
Old == IF status = "running" THEN Tail(events) ELSE events

\* the events a step has scheduled
New == Range(events') \ Range(Old)

C14_TimeOrder ==
  [][ /\ now <= now'
      /\ \A k \in 1..Len(events) : now' <= events[k].time
      /\ \A c \in Range(grants) : arrival_time[c] <= usage_since[c]
      /\ \A c \in Calls :
           (c \in Range(users) /\ c \notin Range(users')) =>
              /\ arrival_time[c] <= usage_since[c]
              /\ usage_since[c] <= now'
    ]_vars

\* a call has departed after waiting and then being served, each for a while
C14_Witness ==
  \E k \in 1..Len(service_times) :
     /\ k <= Len(wait_calls)
     /\ pc[wait_calls[k]] = "done"
     /\ wait_times[k] >= 1
     /\ service_times[k] >= 1

\* a customer generator starts in this step
Starts(c) == pc[c] = "spawned" /\ pc'[c] # "spawned"

\* a Release event for the current virtual time is still to be processed
ReleasePendingNow ==
  \E k \in 1..Len(events) : events[k].kind = "release" /\ events[k].time = now

\* C15: work-conserving hand-off.  With a valid configuration, no arriving
\* customer samples or acts on a state in which the waiting list is non-empty
\* and an agent is free.
C15_NoIdleAgentSeen ==
  [][ (ValidConfig /\ \E c \in Calls : Starts(c)) =>
         (put_queue # <<>> => busy_count = num_agents)
    ]_vars

\* C15 as amended: a release frees the agent at once and the head waiter is
\* granted when the Release event is processed, at the same virtual time but in
\* a later step.  Whenever the waiting list is non-empty, either every agent is
\* busy or such a Release event is pending for the current time.
C15_HandOffAtReleaseEvent ==
  [][ /\ put_queue # <<>> => (busy_count = num_agents \/ ReleasePendingNow)
      /\ (status = "running" /\ Head(events).kind = "release"
            /\ put_queue # <<>> /\ busy_count < num_agents) =>
           /\ now' = now
           /\ users' = Append(users, Head(put_queue))
           /\ put_queue' = Tail(put_queue)
           /\ usage_since'[Head(put_queue)] = now
    ]_vars

\* a customer is about to start while a request waits and an agent is free
C15_Witness ==
  /\ ValidConfig
  /\ status = "running"
  /\ Head(events).kind = "init_customer"
  /\ put_queue # <<>>
  /\ busy_count < num_agents

\* the customer that appends to wait_times in this step
Records(c) ==
  /\ Len(wait_times') = Len(wait_times) + 1
  /\ wait_calls'[Len(wait_calls')] = c

\* C16: immediate grant.  With a valid configuration, a customer that starts
\* while busy_count < capacity is granted in that step, at its arrival time, is
\* not left on the waiting list, and busy_count goes up by exactly 1.
C16_ImmediateGrant ==
  [][ \A c \in Calls :
        (ValidConfig /\ Starts(c) /\ busy_count < num_agents) =>
           /\ c \in Range(users')
           /\ ~(c \in Range(put_queue'))
           /\ Len(users') = Len(users) + 1
           /\ usage_since'[c] = now'
    ]_vars

\* C16 as amended: a customer that starts while busy_count < capacity and the
\* waiting list is empty is granted in that step, at its arrival time, is not
\* left on the waiting list, and busy_count goes up by exactly 1; the wait
\* recorded for a request that was not left on the waiting list is exactly 0.
C16_ImmediateGrantWhenNoneWaits ==
  [][ /\ \A c \in Calls :
           (Starts(c) /\ busy_count < num_agents /\ put_queue = <<>>) =>
              /\ c \in Range(users')
              /\ put_queue' = <<>>
              /\ ~(c \in queued')
              /\ Len(users') = Len(users) + 1
              /\ arrival_time'[c] = now'
              /\ usage_since'[c] = now'
      /\ \A c \in Calls :
           (Records(c) /\ ~(c \in queued)) => wait_times'[Len(wait_times')] = 0
    ]_vars

\* the second agent was granted at once to a later call, which recorded wait 0
C16_Witness ==
  \E k \in 1..Len(wait_times) :
     /\ wait_calls[k] >= 2
     /\ ~(wait_calls[k] \in queued)
     /\ wait_times[k] = 0
     /\ busy_count = 2

\* the customer that gives its agent back in this step
LeavesUsers(c) == c \in Range(users) /\ ~(c \in Range(users'))

\* C17: exact hold and single release.  A granted request gives its agent
\* back exactly at grant_time + service_time, with its service time recorded
\* and its service completed; it never holds two agents, and once it has
\* released it is never granted again.
C17_ExactHoldSingleRelease ==
  [][ /\ \A c \in Calls :
           LeavesUsers(c) =>
              /\ pc'[c] = "done"
              /\ \E k \in 1..Len(service_times) :
                    /\ k <= Len(wait_calls)
                    /\ wait_calls[k] = c
                    /\ service_times[k] >= 0
                    /\ now' = usage_since[c] + service_times[k]
      /\ \A c \in Calls :
           (pc[c] \in {"done", "failed"}) =>
              /\ pc'[c] = pc[c]
              /\ ~(c \in Range(users'))
              /\ ~(c \in Range(put_queue'))
      /\ \A j, k \in 1..Len(users') : users'[j] = users'[k] => j = k
      /\ \A j, k \in 1..Len(grants') : grants'[j] = grants'[k] => j = k
    ]_vars

\* positions of the pending next-arrival events (setup's timeout, line 43)
PendingArrivals == {k \in 1..Len(events) : events[k].kind = "arrival"}

\* C18: arrivals never stop.  Once setup has started, exactly one next-arrival
\* event is pending in every state, whatever the pool and the waiting list
\* hold; the run ends only at the horizon, never by an error, and the arrival
\* left pending at the end is not before the horizon.
C18_ArrivalsNeverStop ==
  built =>
     /\ Cardinality(PendingArrivals) = 1
     /\ \A k \in PendingArrivals : events[k].time >= now
     /\ status # "error"
     /\ Returned => \A k \in PendingArrivals : events[k].time >= SIM_TIME

\* the customers that have started, i.e. have sampled the queue length
Started == {c \in Calls : ~(pc[c] \in {"unborn", "spawned"})}

\* C19: observation alignment.  wait_times and service_times have the same
\* length; the k-th queue sample, wait and service time belong to the k-th
\* arrived request; when the run has returned, the number of queue samples
\* minus the number of waits is the number of requests still waiting.
C19_ObservationAlignment ==
  /\ Len(wait_times) = Len(service_times)
  /\ Len(wait_calls) = Len(wait_times)
  /\ Started = 1..Len(queue_lengths)
  /\ \A k \in 1..Len(wait_times) :
        /\ wait_calls[k] = k
        /\ wait_times[k] = usage_since[k] - arrival_time[k]
  /\ \A j, k \in Started : j < k => arrival_time[j] <= arrival_time[k]
  /\ Returned => Len(queue_lengths) - Len(wait_times) = Len(put_queue)

\* C20: reported peak versus true peak.  The reported max_queue never exceeds
\* the largest waiting-list length a step of the run has left behind, and that
\* largest length is at most the reported max_queue + 1; the reported value is
\* max_queue of the lists as they stand when the run has returned.
C20_ReportedPeak ==
  /\ max_queue <= peak_queue
  /\ peak_queue <= max_queue + 1
  /\ Len(put_queue) <= peak_queue
  /\ status = "reported" => results.max_queue = max_queue

\* a reported run whose waiting list reached 2 while no arrival sampled more than 1
C20_Witness ==
  /\ status = "reported"
  /\ results.max_queue = 1
  /\ peak_queue = 2

====
